---- MODULE Spec2Model ----
(***************************************************************************)
(* Model of lib/src/sparql/dataset.rs: DatasetView, the dataset-scoped     *)
(* view of an encoded quad store used during SPARQL evaluation.            *)
(*                                                                         *)
(* The persistent store S is the environment: a table of strings           *)
(* (id2str) and a sequence of scan items (store), each a quad or an I/O    *)
(* error.  The view adds an interner (extra), the default_graph_as_union   *)
(* flag and the optional encoded dataset restriction (dataset).            *)
(***************************************************************************)
EXTENDS Integers, Sequences, FiniteSets, TLC

VARIABLES store, id2str, extra, default_graph_as_union, dataset, last, iter, produced

vars == <<store, id2str, extra, default_graph_as_union, dataset, last, iter, produced>>

view == <<extra, default_graph_as_union, dataset>>

(***************************************************************************)
(* Bounds of the model.                                                    *)
(***************************************************************************)
\* longest graph list handed to DatasetView::new
MaxList == 2

SeqsUpTo(S, n) == UNION {[1..k -> S] : k \in 0..n}

(***************************************************************************)
(* Option<T> and Result<T, E>.                                             *)
(***************************************************************************)
None == <<>>
Some(x) == <<x>>

Ok(x) == [ok |-> TRUE, val |-> x]
StoreError == [ok |-> FALSE, err |-> "StoreError"]
\* e.into(): the store's error converted to the evaluation error kind
EvaluationError == [ok |-> FALSE, err |-> "EvaluationError"]
into(r) == IF r.ok THEN r ELSE EvaluationError

(***************************************************************************)
(* Identifiers and encoded terms.                                          *)
(***************************************************************************)
AllStrings == <<"g1", "g2", "o1", "gx", "x", "y">>
Strings == {AllStrings[i] : i \in 1..Len(AllStrings)}

\* the store's identifier of a string (a hash of the string in the stores)
StrHash(value) == CHOOSE i \in 1..Len(AllStrings) : AllStrings[i] = value

Store(id) == [tag |-> "Store", id |-> id]
Temporary(id) == [tag |-> "Temporary", id |-> id]

DefaultGraph == [kind |-> "DefaultGraph"]
NamedNode(id) == [kind |-> "NamedNode", iri_id |-> id]
\* a term with no string payload (inlined literal)
IntegerLiteral(v) == [kind |-> "IntegerLiteral", value |-> v]

\* t.map_id(DatasetStrId::Store)
map_id(t) == IF t.kind = "NamedNode" THEN NamedNode(Store(t.iri_id)) ELSE t

unwrap_store_id(id) ==
    IF id.tag = "Store" THEN Ok(id.id) ELSE [ok |-> FALSE, err |-> "()"]

\* t.try_map_id(unwrap_store_id)
try_map_id(t) ==
    IF t.kind = "NamedNode"
    THEN LET r == unwrap_store_id(t.iri_id) IN IF r.ok THEN Ok(NamedNode(r.val)) ELSE r
    ELSE Ok(t)

\* Result::ok
ok(r) == IF r.ok THEN Some(r.val) ELSE None

EncodedQuad(s, p, o, g) == [subject |-> s, predicate |-> p, object |-> o, graph_name |-> g]

(***************************************************************************)
(* The persistent store (environment).                                     *)
(***************************************************************************)
\* the string table of a store that knows exactly the strings of known
StrTable(known) == [h \in {StrHash(v) : v \in known} |-> AllStrings[h]]

\* failing: the strings whose lookup hits an I/O error in the store
store_get_str_id(tbl, failing, value) ==
    IF value \in failing THEN StoreError
    ELSE IF StrHash(value) \in DOMAIN tbl THEN Ok(Some(StrHash(value))) ELSE Ok(None)

store_get_str(tbl, fail, id) ==
    IF fail THEN StoreError
    ELSE IF id \in DOMAIN tbl THEN Ok(Some(tbl[id])) ELSE Ok(None)

get_encoded_named_node(tbl, failing, node) ==
    LET r == store_get_str_id(tbl, failing, node.iri) IN
    IF ~r.ok THEN r
    ELSE IF r.val = None THEN Ok(None) ELSE Ok(Some(NamedNode(r.val[1])))

get_encoded_named_or_blank_node(tbl, failing, node) ==
    get_encoded_named_node(tbl, failing, node)

get_encoded_graph_name(tbl, failing, g) ==
    IF g.kind = "DefaultGraph" THEN Ok(Some(DefaultGraph))
    ELSE get_encoded_named_or_blank_node(tbl, failing, g)

Matches(pos, t) == pos = None \/ pos[1] = t

\* the store's pattern scan: its items, in store order; an I/O error met
\* during the scan is an item of every scan
store_encoded_quads_for_pattern(st, s, p, o, g) ==
    SelectSeq(st, LAMBDA item :
        \/ ~item.ok
        \/ /\ Matches(s, item.val.subject)
           /\ Matches(p, item.val.predicate)
           /\ Matches(o, item.val.object)
           /\ Matches(g, item.val.graph_name))

(***************************************************************************)
(* DatasetView::new                                                        *)
(***************************************************************************)
RECURSIVE collect(_)
\* .flat_map(|g| encode(g).transpose()).collect::<Result<Vec<_>, _>>()
collect(rs) ==
    IF rs = <<>> THEN Ok(<<>>)
    ELSE LET h == Head(rs) IN
         IF ~h.ok THEN h
         ELSE LET rest == collect(Tail(rs)) IN
              IF ~rest.ok THEN rest
              ELSE Ok((IF h.val = None THEN <<>> ELSE <<h.val[1]>>) \o rest.val)

is_empty(ds) == ds.default = <<>> /\ ds.named = <<>>

EncodedDatasetSpec(d, n) == [default |-> d, named |-> n]

DatasetView(u, d) == [extra |-> <<>>, default_graph_as_union |-> u, dataset |-> d]

\* mutant: the explicit lists are used only when both are given
new_requiring_both_lists(tbl, failing, u, default_graphs, named_graphs, ds) ==
    IF default_graphs # <<>> /\ named_graphs # <<>>
    THEN LET d == into(collect([i \in 1..Len(default_graphs) |->
                       get_encoded_graph_name(tbl, failing, default_graphs[i])])) IN
         IF ~d.ok THEN d
         ELSE LET n == into(collect([i \in 1..Len(named_graphs) |->
                           get_encoded_named_or_blank_node(tbl, failing, named_graphs[i])])) IN
              IF ~n.ok THEN n
              ELSE Ok(DatasetView(u, Some(EncodedDatasetSpec(d.val, n.val))))
    ELSE IF is_empty(ds) THEN Ok(DatasetView(u, None))
    ELSE LET d == into(collect([i \in 1..Len(ds.default) |->
                       get_encoded_named_node(tbl, failing, ds.default[i])])) IN
         IF ~d.ok THEN d
         ELSE LET n == into(collect([i \in 1..Len(ds.named) |->
                           get_encoded_named_node(tbl, failing, ds.named[i])])) IN
              IF ~n.ok THEN n
              ELSE Ok(DatasetView(u, Some(EncodedDatasetSpec(d.val, n.val))))

new(tbl, failing, u, default_graphs, named_graphs, ds) ==
    IF default_graphs # <<>> \/ named_graphs # <<>>
    THEN LET d == into(collect([i \in 1..Len(default_graphs) |->
                       get_encoded_graph_name(tbl, failing, default_graphs[i])])) IN
         IF ~d.ok THEN d
         ELSE LET n == into(collect([i \in 1..Len(named_graphs) |->
                           get_encoded_named_or_blank_node(tbl, failing, named_graphs[i])])) IN
              IF ~n.ok THEN n
              ELSE Ok(DatasetView(u, Some(EncodedDatasetSpec(d.val, n.val))))
    ELSE IF is_empty(ds) THEN Ok(DatasetView(u, None))
    ELSE LET d == into(collect([i \in 1..Len(ds.default) |->
                       get_encoded_named_node(tbl, failing, ds.default[i])])) IN
         IF ~d.ok THEN d
         ELSE LET n == into(collect([i \in 1..Len(ds.named) |->
                           get_encoded_named_node(tbl, failing, ds.named[i])])) IN
              IF ~n.ok THEN n
              ELSE Ok(DatasetView(u, Some(EncodedDatasetSpec(d.val, n.val))))

(***************************************************************************)
(* Result sequences.  A QuadsIter is a chain of parts; a part is a flatten *)
(* over the store iterators not reached yet (outer) with the store         *)
(* iterator being consumed (front), followed by the adapters of the part:  *)
(* map_iter, then the default-graph filter or the relabelling map.  A      *)
(* store iterator is the sequence of the scan items it has still to yield. *)
(***************************************************************************)
empty == <<>>

Part(front, outer, relabel, filter) ==
    [front |-> front, outer |-> outer, relabel |-> relabel, filter |-> filter]

\* iters.into_iter().flatten()
flatten(iters, relabel) == <<Part(None, iters, relabel, FALSE)>>

\* a single store iterator
direct(it, filter) == <<Part(Some(it), <<>>, FALSE, filter)>>

chain(a, b) == a \o b

\* the closure of map_iter, applied to one item of a store iterator
map_iter(t) ==
    IF t.ok
    THEN Ok([subject    |-> map_id(t.val.subject),
             predicate  |-> map_id(t.val.predicate),
             object     |-> map_id(t.val.object),
             graph_name |-> map_id(t.val.graph_name)])
    ELSE into(t)

\* the closure that relabels a quad's graph to the default graph
relabel_quad(quad) ==
    IF ~quad.ok THEN quad
    ELSE Ok(EncodedQuad(quad.val.subject, quad.val.predicate, quad.val.object, DefaultGraph))

\* mutant: the filter drops the error items as well
filter_quad_dropping_errors(quad) ==
    IF ~quad.ok THEN FALSE ELSE quad.val.graph_name # DefaultGraph

\* the predicate of the filter of the unrestricted wildcard scan
filter_quad(quad) ==
    IF ~quad.ok THEN TRUE ELSE quad.val.graph_name # DefaultGraph

RECURSIVE next(_)
\* Iterator::next of a QuadsIter: the item, if any, and the iterator after it
next(it) ==
    IF it = <<>> THEN [item |-> None, it |-> <<>>]
    ELSE LET p == Head(it) IN
         IF p.front = None
         THEN IF p.outer = <<>>
              THEN next(Tail(it))
              ELSE next(<<[p EXCEPT !.front = Some(Head(p.outer)),
                                    !.outer = Tail(p.outer)]>> \o Tail(it))
         ELSE LET inner == p.front[1] IN
              IF inner = <<>>
              THEN next(<<[p EXCEPT !.front = None]>> \o Tail(it))
              ELSE LET x  == map_iter(Head(inner))
                       p2 == [p EXCEPT !.front = Some(Tail(inner))]
                   IN  IF p.filter /\ ~filter_quad(x)
                       THEN next(<<p2>> \o Tail(it))
                       ELSE [item |-> Some(IF p.relabel THEN relabel_quad(x) ELSE x),
                             it   |-> <<p2>> \o Tail(it)]

RECURSIVE drain(_)
\* what a consumer that pulls until None collects
drain(it) ==
    LET r == next(it) IN
    IF r.item = None THEN <<>> ELSE <<r.item[1]>> \o drain(r.it)

(***************************************************************************)
(* encoded_quads_for_pattern_in_dataset, branch by branch.  Each returns   *)
(* the result sequence and the calls of the store's                        *)
(* encoded_quads_for_pattern it has made to build it.                      *)
(***************************************************************************)
Built(it, calls) == [it |-> it, calls |-> calls]

contains(list, x) == \E i \in 1..Len(list) : list[i] = x

\* mutant: the quads of the default list keep the graph they were found in
in_dataset_default_unrelabelled(st, d, subject, predicate, object) ==
    Built(flatten([i \in 1..Len(d.default) |->
                      store_encoded_quads_for_pattern(st, subject, predicate, object,
                                                      Some(d.default[i]))], FALSE),
          [i \in 1..Len(d.default) |-> <<subject, predicate, object, Some(d.default[i])>>])

\* mutant: the store is called for a graph only when the consumer reaches it,
\* so the call builds the sequence with the first call alone
in_dataset_default_lazy(st, d, subject, predicate, object) ==
    Built(flatten([i \in 1..Len(d.default) |->
                      store_encoded_quads_for_pattern(st, subject, predicate, object,
                                                      Some(d.default[i]))], TRUE),
          [i \in 1..(IF d.default = <<>> THEN 0 ELSE 1) |->
              <<subject, predicate, object, Some(d.default[i])>>])

\* graph_name == DefaultGraph, restriction configured
in_dataset_default(st, d, subject, predicate, object) ==
    Built(flatten([i \in 1..Len(d.default) |->
                      store_encoded_quads_for_pattern(st, subject, predicate, object,
                                                      Some(d.default[i]))], TRUE),
          [i \in 1..Len(d.default) |-> <<subject, predicate, object, Some(d.default[i])>>])

\* mutant: a graph of the default list counts as a graph of the dataset
in_dataset_graph_any_list(st, d, subject, predicate, object, graph_name) ==
    IF contains(d.named \o d.default, graph_name)
    THEN Built(direct(store_encoded_quads_for_pattern(st, subject, predicate, object,
                                                      Some(graph_name)), FALSE),
               <<<<subject, predicate, object, Some(graph_name)>>>>)
    ELSE Built(empty, <<>>)

\* graph_name bound to a graph, restriction configured
in_dataset_graph(st, d, subject, predicate, object, graph_name) ==
    IF contains(d.named, graph_name)
    THEN Built(direct(store_encoded_quads_for_pattern(st, subject, predicate, object,
                                                      Some(graph_name)), FALSE),
               <<<<subject, predicate, object, Some(graph_name)>>>>)
    ELSE Built(empty, <<>>)

\* mutant: the wildcard ranges over the default list too
in_dataset_named_and_default(st, d, subject, predicate, object) ==
    Built(flatten([i \in 1..Len(d.named \o d.default) |->
                      store_encoded_quads_for_pattern(st, subject, predicate, object,
                                                      Some((d.named \o d.default)[i]))], FALSE),
          [i \in 1..Len(d.named \o d.default) |->
              <<subject, predicate, object, Some((d.named \o d.default)[i])>>])

\* graph_name == None, restriction configured
in_dataset_named(st, d, subject, predicate, object) ==
    Built(flatten([i \in 1..Len(d.named) |->
                      store_encoded_quads_for_pattern(st, subject, predicate, object,
                                                      Some(d.named[i]))], FALSE),
          [i \in 1..Len(d.named) |-> <<subject, predicate, object, Some(d.named[i])>>])

\* graph_name == None, no restriction
in_store_all_graphs(st, subject, predicate, object) ==
    Built(direct(store_encoded_quads_for_pattern(st, subject, predicate, object, None), TRUE),
          <<<<subject, predicate, object, None>>>>)

\* graph_name bound, no restriction
in_store_graph(st, subject, predicate, object, graph_name) ==
    Built(direct(store_encoded_quads_for_pattern(st, subject, predicate, object, graph_name),
                 FALSE),
          <<<<subject, predicate, object, graph_name>>>>)

encoded_quads_for_pattern_in_dataset(st, ds, subject, predicate, object, graph_name) ==
    IF ds # None
    THEN IF graph_name # None
         THEN IF graph_name[1] = DefaultGraph
              THEN in_dataset_default(st, ds[1], subject, predicate, object)
              ELSE in_dataset_graph(st, ds[1], subject, predicate, object, graph_name[1])
         ELSE in_dataset_named(st, ds[1], subject, predicate, object)
    ELSE IF graph_name = None
         THEN in_store_all_graphs(st, subject, predicate, object)
         ELSE in_store_graph(st, subject, predicate, object, graph_name)

(***************************************************************************)
(* encoded_quads_for_pattern of the view.                                  *)
(***************************************************************************)
transpose(o) ==
    IF o = None THEN Some(None)
    ELSE IF o[1] = None THEN None
    ELSE Some(Some(o[1][1]))

\* position.map(|t| t.try_map_id(unwrap_store_id).ok())
downgrade(position) ==
    IF position = None THEN None ELSE Some(ok(try_map_id(position[1])))

\* mutant: a graph that cannot be downgraded is taken for the wildcard
try_map_quad_pattern_lenient_graph(subject, predicate, object, graph_name) ==
    LET s == transpose(downgrade(subject))
        p == transpose(downgrade(predicate))
        o == transpose(downgrade(object))
        g == transpose(downgrade(graph_name))
    IN  IF s = None THEN None
        ELSE IF p = None THEN None
        ELSE IF o = None THEN None
        ELSE IF g = None THEN Some(<<s[1], p[1], o[1], None>>)
        ELSE Some(<<s[1], p[1], o[1], g[1]>>)

try_map_quad_pattern(subject, predicate, object, graph_name) ==
    LET s == transpose(downgrade(subject))
        p == transpose(downgrade(predicate))
        o == transpose(downgrade(object))
        g == transpose(downgrade(graph_name))
    IN  IF s = None THEN None
        ELSE IF p = None THEN None
        ELSE IF o = None THEN None
        ELSE IF g = None THEN None
        ELSE Some(<<s[1], p[1], o[1], g[1]>>)

\* mutant: the two halves of the union chained the other way round
encoded_quads_for_pattern_wildcard_first(st, u, ds, subject, predicate, object, graph_name) ==
    LET m == try_map_quad_pattern(subject, predicate, object, graph_name) IN
    IF m # None
    THEN LET q == m[1] IN
         IF q[4] = Some(DefaultGraph) /\ u
         THEN LET a == encoded_quads_for_pattern_in_dataset(st, ds, q[1], q[2], q[3],
                                                            Some(DefaultGraph))
                  b == encoded_quads_for_pattern_in_dataset(st, ds, q[1], q[2], q[3], None)
              IN  Built(chain(b.it, a.it), b.calls \o a.calls)
         ELSE encoded_quads_for_pattern_in_dataset(st, ds, q[1], q[2], q[3], q[4])
    ELSE Built(empty, <<>>)

encoded_quads_for_pattern(st, u, ds, subject, predicate, object, graph_name) ==
    LET m == try_map_quad_pattern(subject, predicate, object, graph_name) IN
    IF m # None
    THEN LET q == m[1] IN
         IF q[4] = Some(DefaultGraph) /\ u
         THEN LET a == encoded_quads_for_pattern_in_dataset(st, ds, q[1], q[2], q[3],
                                                            Some(DefaultGraph))
                  b == encoded_quads_for_pattern_in_dataset(st, ds, q[1], q[2], q[3], None)
              IN  Built(chain(a.it, b.it), a.calls \o b.calls)
         ELSE encoded_quads_for_pattern_in_dataset(st, ds, q[1], q[2], q[3], q[4])
    ELSE Built(empty, <<>>)

(***************************************************************************)
(* String lookup and interning.                                            *)
(***************************************************************************)
\* Rodeo::get: the key of an interned string
rodeo_get(ex, value) ==
    IF \E k \in 1..Len(ex) : ex[k] = value
    THEN Some((CHOOSE k \in 1..Len(ex) : ex[k] = value) - 1)
    ELSE None

\* Rodeo::try_resolve
try_resolve(ex, key) == IF key + 1 \in 1..Len(ex) THEN Some(ex[key + 1]) ELSE None

\* Rodeo::get_or_intern: the key and the interner after the call
get_or_intern(ex, value) ==
    IF rodeo_get(ex, value) # None
    THEN [key |-> rodeo_get(ex, value)[1], extra |-> ex]
    ELSE [key |-> Len(ex), extra |-> Append(ex, value)]

get_str(tbl, ex, fail, id) ==
    IF id.tag = "Store" THEN into(store_get_str(tbl, fail, id.id))
    ELSE Ok(try_resolve(ex, id.id))

\* mutant: the interner is not looked into
get_str_id_store_only(tbl, ex, failing, value) ==
    LET r == into(store_get_str_id(tbl, failing, value)) IN
    IF ~r.ok THEN r
    ELSE IF r.val = None THEN Ok(None) ELSE Ok(Some(Store(r.val[1])))

get_str_id(tbl, ex, failing, value) ==
    IF rodeo_get(ex, value) # None
    THEN Ok(Some(Temporary(rodeo_get(ex, value)[1])))
    ELSE LET r == into(store_get_str_id(tbl, failing, value)) IN
         IF ~r.ok THEN r
         ELSE IF r.val = None THEN Ok(None) ELSE Ok(Some(Store(r.val[1])))

\* mutant: the store is not asked
insert_str_always_interning(tbl, ex, failing, value) ==
    LET g == get_or_intern(ex, value) IN
    [ret |-> Ok(Temporary(g.key)), extra |-> g.extra]

\* the value returned and the interner after the call
insert_str(tbl, ex, failing, value) ==
    LET r == into(store_get_str_id(tbl, failing, value)) IN
    IF ~r.ok THEN [ret |-> r, extra |-> ex]
    ELSE IF r.val # None THEN [ret |-> Ok(Store(r.val[1])), extra |-> ex]
    ELSE LET g == get_or_intern(ex, value) IN
         [ret |-> Ok(Temporary(g.key)), extra |-> g.extra]

(***************************************************************************)
(* The inputs the specifications draw from.                                *)
(***************************************************************************)
\* the strings the store of Spec, SpecTemp, SpecIter and SpecNew knows
KnownStrings == {"g1", "g2", "o1"}

G1 == NamedNode(StrHash("g1"))
G2 == NamedNode(StrHash("g2"))
O1 == NamedNode(StrHash("o1"))
Lit == IntegerLiteral(7)

\* a store with quads in two named graphs and in the default graph, in its
\* scan order (which is not the order of the graphs), and an I/O error
\* met at one place of a scan
RichStore ==
    << Ok(EncodedQuad(O1, O1, O1, G2)),
       Ok(EncodedQuad(O1, O1, O1, DefaultGraph)),
       Ok(EncodedQuad(O1, O1, O1, G1)),
       StoreError,
       Ok(EncodedQuad(O1, O1, Lit, G1)) >>

RECURSIVE Restrict(_, _)
\* the items of st at the places of keep, in the order of st
Restrict(st, keep) ==
    IF st = <<>> THEN <<>>
    ELSE Restrict(SubSeq(st, 1, Len(st) - 1), keep)
         \o (IF Len(st) \in keep THEN <<st[Len(st)]>> ELSE <<>>)

\* the stores: every store holding some of the quads of RichStore, with or
\* without the I/O error (the empty store included)
Stores == {Restrict(RichStore, keep) : keep \in SUBSET (1..Len(RichStore))}

\* model terms (not encoded) naming graphs
Iri(v) == [kind |-> "NamedNode", iri |-> v]
GraphIris == {Iri("g1"), Iri("g2"), Iri("gx")}
GraphNames == {[kind |-> "DefaultGraph"]} \cup GraphIris

EmptySpec == [default |-> <<>>, named |-> <<>>]

DatasetSpecs ==
    [default : SeqsUpTo(GraphIris, MaxList), named : SeqsUpTo(GraphIris, MaxList)]

\* the DatasetSpecs handed over together with explicit graph lists
ShortSpecs ==
    [default : {<<>>} \cup {<<g>> : g \in GraphIris},
     named : {<<>>} \cup {<<g>> : g \in GraphIris}]

\* the bound positions a caller can build: terms it got from the view
TemporaryTerms(ex) == {NamedNode(Temporary(k - 1)) : k \in 1..Len(ex)}
Subjects(ex) == {None} \cup {Some(t) : t \in TemporaryTerms(ex)}
StoreObjects == {None, Some(map_id(O1)), Some(Lit)}
Objects(ex) == StoreObjects \cup {Some(t) : t \in TemporaryTerms(ex)}
StoreGraphs == {None, Some(DefaultGraph), Some(map_id(G1)), Some(map_id(G2))}
Graphs(ex) == StoreGraphs \cup {Some(t) : t \in TemporaryTerms(ex)}

\* the record of the last call: its inputs, what it returned, the calls of
\* the store's encoded_quads_for_pattern it made, and the interner and the
\* store as they were before it
Op(op, args, ret, calls, pre) ==
    [op |-> op, args |-> args, ret |-> ret, calls |-> calls, pre |-> pre]

Before == [extra |-> extra, id2str |-> id2str, store |-> store]

NoOp == Op("none", <<>>, <<>>, <<>>, <<>>)

\* no call is under way and no result sequence is held
Idle == last.op = "none" /\ iter = None

(***************************************************************************)
(* Actions.                                                                *)
(***************************************************************************)
\* DatasetView::new
New(u, default_graphs, named_graphs, ds, failing) ==
    LET r == new(id2str, failing, u, default_graphs, named_graphs, ds) IN
    /\ last' = Op("new",
                  [default_graph_as_union |-> u, default_graphs |-> default_graphs,
                   named_graphs |-> named_graphs, dataset |-> ds, failing |-> failing],
                  IF r.ok THEN Ok("DatasetView") ELSE r, <<>>, Before)
    /\ extra' = IF r.ok THEN r.val.extra ELSE extra
    /\ default_graph_as_union' = IF r.ok THEN r.val.default_graph_as_union
                                 ELSE default_graph_as_union
    /\ dataset' = IF r.ok THEN r.val.dataset ELSE dataset
    /\ UNCHANGED <<store, id2str, iter, produced>>

\* insert_str(value)
InsertStr(value, failing) ==
    LET r == insert_str(id2str, extra, failing, value) IN
    /\ extra' = r.extra
    /\ last' = Op("insert_str", value, r.ret, <<>>, Before)
    /\ produced' = IF r.ret.ok THEN produced \cup {<<value, r.ret.val>>} ELSE produced
    /\ UNCHANGED <<store, id2str, default_graph_as_union, dataset, iter>>

\* get_str_id(value)
GetStrId(value, failing) ==
    LET r == get_str_id(id2str, extra, failing, value) IN
    /\ last' = Op("get_str_id", value, r, <<>>, Before)
    /\ produced' = IF r.ok /\ r.val # None
                   THEN produced \cup {<<value, r.val[1]>>} ELSE produced
    /\ UNCHANGED <<store, id2str, extra, default_graph_as_union, dataset, iter>>

\* get_str(id)
GetStr(id, fail) ==
    /\ last' = Op("get_str", id, get_str(id2str, extra, fail, id), <<>>, Before)
    /\ UNCHANGED <<store, id2str, extra, default_graph_as_union, dataset, iter, produced>>

\* encoded_quads_for_pattern(...).collect(): the call, and the consumer
\* pulling the sequence to its end
Quads(subject, predicate, object, graph_name) ==
    LET b == encoded_quads_for_pattern(store, default_graph_as_union, dataset,
                                       subject, predicate, object, graph_name) IN
    /\ last' = Op("encoded_quads_for_pattern", <<subject, predicate, object, graph_name>>,
                  drain(b.it), b.calls, Before)
    /\ UNCHANGED <<store, id2str, extra, default_graph_as_union, dataset, iter, produced>>

\* encoded_quads_for_pattern(...): the call alone; the consumer holds the sequence
Open(subject, predicate, object, graph_name) ==
    LET b == encoded_quads_for_pattern(store, default_graph_as_union, dataset,
                                       subject, predicate, object, graph_name) IN
    /\ iter' = Some(b.it)
    /\ last' = Op("open", <<subject, predicate, object, graph_name>>, <<>>, b.calls, Before)
    /\ UNCHANGED <<store, id2str, extra, default_graph_as_union, dataset, produced>>

\* the consumer pulls the next item of the sequence it holds
Pull ==
    /\ iter # None
    /\ last.op \in {"open", "pull"}
    /\ LET r == next(iter[1]) IN
       /\ iter' = Some(r.it)
       /\ last' = IF r.item = None THEN [last EXCEPT !.op = "end"]
                  ELSE [last EXCEPT !.op = "pull", !.ret = Append(last.ret, r.item[1])]
    /\ UNCHANGED <<store, id2str, extra, default_graph_as_union, dataset, produced>>

\* the consumer drops the sequence
Drop ==
    /\ iter # None
    /\ iter' = None
    /\ last' = [last EXCEPT !.op = "drop"]
    /\ UNCHANGED <<store, id2str, extra, default_graph_as_union, dataset, produced>>

\* the caller is done with what the last call returned
Return ==
    /\ last.op # "none"
    /\ iter = None
    /\ last' = NoOp
    /\ UNCHANGED <<store, id2str, extra, default_graph_as_union, dataset, iter, produced>>

(***************************************************************************)
(* Specifications.                                                         *)
(***************************************************************************)
\* a view just constructed over the store st
Constructed(st) ==
    /\ store = st
    /\ id2str = StrTable(KnownStrings)
    /\ \E u \in BOOLEAN, dg \in SeqsUpTo(GraphNames, MaxList),
          ng \in SeqsUpTo(GraphIris, MaxList) :
          \E ds \in IF dg = <<>> /\ ng = <<>> THEN DatasetSpecs ELSE {EmptySpec} :
          LET r == new(id2str, {}, u, dg, ng, ds) IN
          /\ r.ok
          /\ extra = r.val.extra
          /\ default_graph_as_union = r.val.default_graph_as_union
          /\ dataset = r.val.dataset
    /\ last = NoOp
    /\ iter = None
    /\ produced = {}

\* Spec: patterns of store terms, collected, over every store and every view
Init == \E st \in Stores : Constructed(st)

Next ==
    \/ /\ Idle
       /\ \E o \in StoreObjects, g \in StoreGraphs :
             Quads(None, Some(map_id(O1)), o, g)
    \/ Return

Spec == Init /\ [][Next]_vars

\* SpecTemp: interning, and patterns with temporary terms among the bound positions
InitTemp == Constructed(RichStore)

NextTemp ==
    \/ /\ Idle
       /\ \E value \in {"x", "o1"} : InsertStr(value, {})
    \/ /\ Idle
       /\ \E s \in Subjects(extra), p \in Subjects(extra), o \in Objects(extra),
             g \in Graphs(extra) : Quads(s, p, o, g)
    \/ Return

SpecTemp == InitTemp /\ [][NextTemp]_vars

\* SpecIter: a pattern query pulled item by item, or dropped
InitIter == Constructed(RichStore)

NextIter ==
    \/ /\ Idle
       /\ \E o \in StoreObjects, g \in StoreGraphs : Open(None, None, o, g)
    \/ Pull
    \/ Drop
    \/ Return

SpecIter == InitIter /\ [][NextIter]_vars

\* SpecNew: the construction of the view
InitNew ==
    /\ store = <<>>
    /\ id2str = StrTable(KnownStrings)
    /\ extra = <<>>
    /\ default_graph_as_union = FALSE
    /\ dataset = None
    /\ last = NoOp
    /\ iter = None
    /\ produced = {}

NextNew ==
    /\ Idle
    /\ \E u \in BOOLEAN, dg \in SeqsUpTo(GraphNames, MaxList),
          ng \in SeqsUpTo(GraphIris, MaxList), failing \in {{}, {"g1"}, {"gx"}} :
          \E ds \in IF dg = <<>> /\ ng = <<>> THEN DatasetSpecs ELSE ShortSpecs :
          New(u, dg, ng, ds, failing)

SpecNew == InitNew /\ [][NextNew]_vars

\* SpecStr: interning and string lookup over every store string table
StrStrings == {"g1", "x", "y"}

InitStr ==
    /\ store = <<>>
    /\ \E known \in SUBSET StrStrings : id2str = StrTable(known)
    /\ extra = <<>>
    /\ default_graph_as_union = FALSE
    /\ dataset = None
    /\ last = NoOp
    /\ iter = None
    /\ produced = {}

NextStr ==
    \/ \E value \in StrStrings : \E failing \in {{}, {value}} : InsertStr(value, failing)
    \/ \E value \in StrStrings : \E failing \in {{}, {value}} : GetStrId(value, failing)
    \/ \E pair \in produced, fail \in BOOLEAN : GetStr(pair[2], fail)

SpecStr == InitStr /\ [][NextStr]_vars

(***************************************************************************)
(* What the claims speak of, stated over the store's own scans.            *)
(***************************************************************************)
IsQuery == last.op = "encoded_quads_for_pattern"

\* a bound position holding a term that carries a Temporary identifier
HasTemporary(position) ==
    /\ position # None
    /\ position[1].kind = "NamedNode"
    /\ position[1].iri_id.tag = "Temporary"

AnyTemporary(pattern) == \E i \in 1..4 : HasTemporary(pattern[i])

\* a store term as the view hands it out, and a view position as the store takes it
ViewTerm(t) ==
    IF t.kind = "NamedNode"
    THEN [kind |-> "NamedNode", iri_id |-> [tag |-> "Store", id |-> t.iri_id]]
    ELSE t

StorePosition(position) ==
    IF position # None /\ position[1].kind = "NamedNode"
    THEN <<[kind |-> "NamedNode", iri_id |-> position[1].iri_id.id]>>
    ELSE position

\* an item of a store scan as the view hands it out
ViewItem(item) ==
    IF item.ok
    THEN [ok |-> TRUE,
          val |-> [subject    |-> ViewTerm(item.val.subject),
                   predicate  |-> ViewTerm(item.val.predicate),
                   object     |-> ViewTerm(item.val.object),
                   graph_name |-> ViewTerm(item.val.graph_name)]]
    ELSE [ok |-> FALSE, err |-> "EvaluationError"]

Relabelled(item) ==
    IF item.ok THEN [item EXCEPT !.val.graph_name = [kind |-> "DefaultGraph"]] ELSE item

ViewItems(items) == [i \in 1..Len(items) |-> ViewItem(items[i])]

RelabelledItems(items) == [i \in 1..Len(items) |-> Relabelled(items[i])]

\* the store's scan of the pattern of the last call in the graph position g
ScanOf(pattern, g) ==
    ViewItems(store_encoded_quads_for_pattern(store, StorePosition(pattern[1]),
                                              StorePosition(pattern[2]),
                                              StorePosition(pattern[3]), g))

RECURSIVE ScansOf(_, _)
\* the scans of the graphs of a list, one after the other in list order
ScansOf(pattern, graphs) ==
    IF graphs = <<>> THEN <<>>
    ELSE ScanOf(pattern, <<Head(graphs)>>) \o ScansOf(pattern, Tail(graphs))

\* the store calls for the graphs of a list
CallsOf(pattern, graphs) ==
    [i \in 1..Len(graphs) |->
        <<StorePosition(pattern[1]), StorePosition(pattern[2]), StorePosition(pattern[3]),
          <<graphs[i]>>>>]

Listed(graphs, g) == \E i \in 1..Len(graphs) : graphs[i] = g

NotDefaultGraph(item) == ~item.ok \/ item.val.graph_name # [kind |-> "DefaultGraph"]

\* the table of the dataset-aware resolution, for a pattern of store terms
DatasetAware(pattern, g) ==
    IF dataset # None
    THEN IF g = <<[kind |-> "DefaultGraph"]>>
         THEN RelabelledItems(ScansOf(pattern, dataset[1].default))
         ELSE IF g # None
         THEN IF Listed(dataset[1].named, g[1]) THEN ScanOf(pattern, g) ELSE <<>>
         ELSE ScansOf(pattern, dataset[1].named)
    ELSE IF g = None THEN SelectSeq(ScanOf(pattern, None), NotDefaultGraph)
    ELSE ScanOf(pattern, g)

\* the store holds a quad of graph g
Holds(g) == \E i \in 1..Len(store) : store[i].ok /\ store[i].val.graph_name = g

(***************************************************************************)
(* C1: a pattern with a Temporary identifier in a bound position (subject, *)
(* predicate, object or graph) yields the empty sequence and no call of    *)
(* the store's encoded_quads_for_pattern, whatever the restriction and the *)
(* union flag.                                                             *)
(***************************************************************************)
C1_TemporaryShortCircuit ==
    (IsQuery /\ AnyTemporary(last.args)) => (last.ret = <<>> /\ last.calls = <<>>)

\* a Temporary graph alone, in union mode without restriction, over a store with quads
C1_Witness ==
    /\ IsQuery
    /\ HasTemporary(last.args[4])
    /\ last.args[1] = None /\ last.args[2] = None /\ last.args[3] = None
    /\ default_graph_as_union
    /\ dataset = None
    /\ store # <<>>
    /\ last.ret = <<>>

(***************************************************************************)
(* C2: restriction configured, no union mode, graph = default graph: the   *)
(* result is the scans of the graphs of the default list, in list order (a *)
(* graph listed twice scanned twice), every quad relabelled to the default *)
(* graph and otherwise as the store yields it.                             *)
(***************************************************************************)
C2_DefaultGraphList ==
    (/\ IsQuery
     /\ ~AnyTemporary(last.args)
     /\ dataset # None
     /\ ~default_graph_as_union
     /\ last.args[4] = Some(DefaultGraph))
    => /\ last.ret = RelabelledItems(ScansOf(last.args, dataset[1].default))
       /\ last.calls = CallsOf(last.args, dataset[1].default)

\* the default list names g1 twice: the three items of its scan come twice
C2_Witness ==
    /\ IsQuery
    /\ dataset # None
    /\ ~default_graph_as_union
    /\ last.args[4] = Some(DefaultGraph)
    /\ last.args[3] = None
    /\ dataset[1].default = <<G1, G1>>
    /\ store = RichStore
    /\ Len(last.ret) = 6
    /\ \A i \in 1..Len(last.ret) : last.ret[i].ok => last.ret[i].val.graph_name = DefaultGraph

(***************************************************************************)
(* C3: restriction configured, graph bound to a graph term g other than    *)
(* the default graph: with g in the named list the result is the store's   *)
(* scan of g, not relabelled, by one store call; with g not in the named   *)
(* list it is empty (also when g is in the default list and the store      *)
(* holds quads of g).                                                      *)
(***************************************************************************)
C3_NamedGraphMembership ==
    (/\ IsQuery
     /\ ~AnyTemporary(last.args)
     /\ dataset # None
     /\ last.args[4] # None
     /\ last.args[4] # Some(DefaultGraph))
    => LET g == StorePosition(last.args[4]) IN
       IF Listed(dataset[1].named, g[1])
       THEN last.ret = ScanOf(last.args, g) /\ last.calls = CallsOf(last.args, g)
       ELSE last.ret = <<>> /\ last.calls = <<>>

\* g1 is in the default list only and the store holds quads of g1
C3_Witness ==
    /\ IsQuery
    /\ dataset # None
    /\ last.args[4] = Some(map_id(G1))
    /\ last.args[3] = None
    /\ Listed(dataset[1].default, G1)
    /\ ~Listed(dataset[1].named, G1)
    /\ Holds(G1)
    /\ last.ret = <<>>

(***************************************************************************)
(* C4: restriction configured, wildcard graph: the result is the scans of  *)
(* the graphs of the named list, in list order, not relabelled; the store  *)
(* is called for the graphs of the named list only, and no quad of another *)
(* graph is yielded.                                                       *)
(***************************************************************************)
C4_WildcardOverNamed ==
    (/\ IsQuery
     /\ ~AnyTemporary(last.args)
     /\ dataset # None
     /\ last.args[4] = None)
    => /\ last.ret = ScansOf(last.args, dataset[1].named)
       /\ last.calls = CallsOf(last.args, dataset[1].named)
       /\ \A i \in 1..Len(last.ret) :
             last.ret[i].ok =>
                \E k \in 1..Len(dataset[1].named) :
                   last.ret[i].val.graph_name = ViewTerm(dataset[1].named[k])

\* named = g1, g2 against the store order g2, g1; g2 and the default graph
\* are in the default list
C4_Witness ==
    /\ IsQuery
    /\ dataset # None
    /\ last.args[4] = None
    /\ last.args[3] = None
    /\ dataset[1].named = <<G1, G2>>
    /\ dataset[1].default = <<DefaultGraph, G2>>
    /\ store = RichStore
    /\ Len(last.ret) = 5

(***************************************************************************)
(* C5: no restriction, wildcard graph: the result is the store's wildcard  *)
(* scan in store order without the quads of the default graph; every other *)
(* quad and every error item is kept.                                      *)
(***************************************************************************)
C5_UnrestrictedWildcard ==
    (/\ IsQuery
     /\ ~AnyTemporary(last.args)
     /\ dataset = None
     /\ last.args[4] = None)
    => /\ last.ret = SelectSeq(ScanOf(last.args, None), NotDefaultGraph)
       /\ \A i \in 1..Len(last.ret) :
             last.ret[i].ok => last.ret[i].val.graph_name # DefaultGraph
       /\ Cardinality({i \in 1..Len(last.ret) : ~last.ret[i].ok})
             = Cardinality({i \in 1..Len(store) : ~store[i].ok})

\* the store holds a default-graph quad, other quads and an error
C5_Witness ==
    /\ IsQuery
    /\ dataset = None
    /\ last.args[4] = None
    /\ last.args[3] = None
    /\ store = RichStore
    /\ Len(last.ret) = 4
    /\ ~last.ret[3].ok

(***************************************************************************)
(* C6: in union mode with graph = default graph the result is the          *)
(* dataset-aware result for the default graph followed by the              *)
(* dataset-aware result for the wildcard, nothing removed; for every other *)
(* graph position the result is the dataset-aware result for that          *)
(* position, whatever the union flag.                                      *)
(***************************************************************************)
C6_UnionMode ==
    (IsQuery /\ ~AnyTemporary(last.args))
    => LET g == StorePosition(last.args[4]) IN
       IF default_graph_as_union /\ last.args[4] = Some(DefaultGraph)
       THEN last.ret = DatasetAware(last.args, Some(DefaultGraph))
                          \o DatasetAware(last.args, None)
       ELSE last.ret = DatasetAware(last.args, g)

\* g1 is a default and a named graph: its quads come twice, relabelled first
C6_Witness ==
    /\ IsQuery
    /\ default_graph_as_union
    /\ last.args[4] = Some(DefaultGraph)
    /\ last.args[3] = Some(Lit)
    /\ dataset # None
    /\ dataset[1].default = <<G1>>
    /\ dataset[1].named = <<G2, G1>>
    /\ store = RichStore
    /\ Len(last.ret) = 5
    /\ last.ret[2].val.graph_name = DefaultGraph
    /\ last.ret[5].val.graph_name = map_id(G1)

(***************************************************************************)
(* C7: insert_str(s), when the store's lookup succeeds, returns the        *)
(* store's identifier of s if the store knows s, and then leaves the       *)
(* interner as it was; otherwise a Temporary identifier.  A string gets    *)
(* the same identifier every time and two strings never get the same one.  *)
(* The store is not modified.                                              *)
(***************************************************************************)
StoreKnows(value) == \E h \in DOMAIN id2str : id2str[h] = value

StoreIdOf(value) == CHOOSE h \in DOMAIN id2str : id2str[h] = value

C7_InsertStr ==
    /\ last.op = "insert_str" =>
          /\ id2str = last.pre.id2str
          /\ store = last.pre.store
          /\ last.ret.ok =>
                IF StoreKnows(last.args)
                THEN /\ last.ret.val = [tag |-> "Store", id |-> StoreIdOf(last.args)]
                     /\ extra = last.pre.extra
                ELSE /\ last.ret.val.tag = "Temporary"
                     /\ <<last.args, last.ret.val>> \in produced
    /\ \A a \in produced, b \in produced : (a[1] = b[1]) <=> (a[2] = b[2])

\* a second unknown string has been interned, and the first one again
C7_Witness ==
    /\ last.op = "insert_str"
    /\ last.ret.ok
    /\ ~StoreKnows(last.args)
    /\ Len(extra) = 2
    /\ last.pre.extra = extra
    /\ last.args = extra[1]
    /\ \E a \in produced : a[2].tag = "Store"

(***************************************************************************)
(* C8: for every identifier the view has handed out, get_str returns a     *)
(* string, and insert_str and get_str_id of that string return the         *)
(* identifier; get_str_id and insert_str never resolve a string to         *)
(* different identifiers.                                                  *)
(***************************************************************************)
C8_RoundTrip ==
    /\ \A pair \in produced :
          LET r == get_str(id2str, extra, FALSE, pair[2]) IN
          /\ r.ok
          /\ r.val = <<pair[1]>>
          /\ insert_str(id2str, extra, {}, pair[1]).ret = [ok |-> TRUE, val |-> pair[2]]
          /\ get_str_id(id2str, extra, {}, pair[1]) = [ok |-> TRUE, val |-> <<pair[2]>>]
    /\ \A value \in StrStrings :
          LET r == get_str_id(id2str, extra, {}, value) IN
          r.val # None => insert_str(id2str, extra, {}, value).ret.val = r.val[1]
    /\ (last.op = "get_str" /\ last.ret.ok) =>
          /\ last.ret.val # None
          /\ <<last.ret.val[1], last.args>> \in produced

\* get_str of a Temporary identifier, with a Store identifier handed out as well
C8_Witness ==
    /\ last.op = "get_str"
    /\ last.ret.ok
    /\ last.args.tag = "Temporary"
    /\ Len(extra) = 2
    /\ \E a \in produced : a[2].tag = "Store"

(***************************************************************************)
(* C9: DatasetView::new takes the explicit lists if one of them is not     *)
(* empty, else the DatasetSpec if it is not empty, else no restriction.    *)
(* The lists of the restriction are the encodings of the terms the store   *)
(* can encode, in input order, duplicates kept; a restriction whose terms  *)
(* were all skipped is configured and empty; a store error in a resolution *)
(* makes new return an error.                                              *)
(***************************************************************************)
Encodable(term) == term.kind = "DefaultGraph" \/ StoreKnows(term.iri)

Encoding(term) ==
    IF term.kind = "DefaultGraph" THEN [kind |-> "DefaultGraph"]
    ELSE [kind |-> "NamedNode", iri_id |-> StoreIdOf(term.iri)]

Resolved(terms) ==
    LET known == SelectSeq(terms, Encodable) IN [i \in 1..Len(known) |-> Encoding(known[i])]

Failing(terms, failing) ==
    \E i \in 1..Len(terms) : terms[i].kind = "NamedNode" /\ terms[i].iri \in failing

C9_Restriction ==
    last.op = "new" =>
       LET a        == last.args
           explicit == a.default_graphs # <<>> \/ a.named_graphs # <<>>
           default  == IF explicit THEN a.default_graphs ELSE a.dataset.default
           named    == IF explicit THEN a.named_graphs ELSE a.dataset.named
       IN  IF Failing(default, a.failing) \/ Failing(named, a.failing)
           THEN ~last.ret.ok
           ELSE /\ last.ret.ok
                /\ default_graph_as_union = a.default_graph_as_union
                /\ extra = <<>>
                /\ IF default = <<>> /\ named = <<>>
                   THEN dataset = None
                   ELSE dataset = <<[default |-> Resolved(default), named |-> Resolved(named)]>>

\* explicit lists whose terms are all unknown to the store, beside a DatasetSpec
\* that names a known graph: the restriction is configured and empty
C9_Witness ==
    /\ last.op = "new"
    /\ last.ret.ok
    /\ last.args.default_graphs = <<Iri("gx")>>
    /\ last.args.named_graphs = <<Iri("gx"), Iri("gx")>>
    /\ last.args.dataset.default = <<Iri("g1")>>
    /\ dataset = Some(EncodedDatasetSpec(<<>>, <<>>))

(***************************************************************************)
(* C10, as claimed: the store's encoded_quads_for_pattern for a sub-query  *)
(* is invoked only when the consumer has pulled its way to that sub-query: *)
(* when the call has fanned out into several store calls, no store         *)
(* iterator is waiting that the consumer has not reached yet.              *)
(***************************************************************************)
RECURSIVE Unreached(_)
\* the store iterators of a result sequence the consumer has not reached
Unreached(it) == IF it = <<>> THEN 0 ELSE Len(Head(it).outer) + Unreached(Tail(it))

C10_LazyStoreCalls ==
    (iter # None /\ Len(last.calls) >= 2) => Unreached(iter[1]) = 0

(***************************************************************************)
(* C10, amended: every store call of a pattern query is made by the call   *)
(* of encoded_quads_for_pattern itself, one per graph of the list (in      *)
(* union mode those of both halves), and none while the sequence is pulled *)
(* or dropped; only the items are lazy: before the first pull nothing has  *)
(* been taken from a store iterator, and what has been pulled, followed by *)
(* what is left, is the result.                                            *)
(***************************************************************************)
CallsFor(pattern, g) ==
    IF dataset # None
    THEN IF g = <<[kind |-> "DefaultGraph"]>> THEN CallsOf(pattern, dataset[1].default)
         ELSE IF g # None
         THEN IF Listed(dataset[1].named, g[1]) THEN CallsOf(pattern, g) ELSE <<>>
         ELSE CallsOf(pattern, dataset[1].named)
    ELSE <<<<StorePosition(pattern[1]), StorePosition(pattern[2]),
             StorePosition(pattern[3]), g>>>>

AllCalls(pattern) ==
    IF default_graph_as_union /\ pattern[4] = Some(DefaultGraph)
    THEN CallsFor(pattern, Some(DefaultGraph)) \o CallsFor(pattern, None)
    ELSE CallsFor(pattern, StorePosition(pattern[4]))

WholeResult(pattern) ==
    IF default_graph_as_union /\ pattern[4] = Some(DefaultGraph)
    THEN DatasetAware(pattern, Some(DefaultGraph)) \o DatasetAware(pattern, None)
    ELSE DatasetAware(pattern, StorePosition(pattern[4]))

RECURSIVE Waiting(_)
\* the items still in the store iterators of a result sequence
Waiting(it) ==
    IF it = <<>> THEN 0
    ELSE LET p == Head(it)
             held == IF p.front = None THEN 0 ELSE Len(p.front[1])
             Sum[k \in 0..Len(p.outer)] == IF k = 0 THEN 0 ELSE Sum[k - 1] + Len(p.outer[k])
         IN  held + Sum[Len(p.outer)] + Waiting(Tail(it))

RECURSIVE Scanned(_)
\* the items of the scans of a sequence of store calls
Scanned(calls) ==
    IF calls = <<>> THEN 0
    ELSE Len(store_encoded_quads_for_pattern(store, Head(calls)[1], Head(calls)[2],
                                             Head(calls)[3], Head(calls)[4]))
         + Scanned(Tail(calls))

C10_EagerStoreCalls ==
    last.op \in {"open", "pull", "end", "drop"} =>
       /\ last.calls = AllCalls(last.args)
       /\ last.op = "open" => Waiting(iter[1]) = Scanned(last.calls)
       /\ iter # None => last.ret \o drain(iter[1]) = WholeResult(last.args)

\* dropped after the first item, with the store called for two more graphs
\* whose scans hold items
C10_Witness ==
    /\ last.op = "drop"
    /\ Len(last.ret) = 1
    /\ Len(last.calls) = 4
    /\ default_graph_as_union
    /\ dataset # None
    /\ dataset[1].default = <<G1, G2>>
    /\ dataset[1].named = <<G2, G1>>

====
